---- MODULE Spec2Model ----
(***************************************************************************)
(* Multi-chain deployment coordinator                                      *)
(* (hardhat-manager/scripts/multi_chain_deployer.py).                      *)
(*                                                                         *)
(* The model follows one call of MultiChainDeployer.execute_deployment on  *)
(* a job configuration: the control thread walks through the strategy      *)
(* routine, the worker threads of the ThreadPoolExecutor run               *)
(* deploy_to_network, and generate_deployment_report reduces the result    *)
(* dictionary.  Python dictionaries are modelled in insertion order, as    *)
(* sequences of [key, value] entries; a dictionary literal is a record and *)
(* d.get(k, default) is Get(d, k, default).                                *)
(***************************************************************************)
EXTENDS Integers, Sequences, FiniteSets, TLC

\* How many registered networks a job configuration may name.
MaxNetworks == 2

\* How many networks the job handed to one worker pool may name.
MaxTargets == 6

\* ThreadPoolExecutor(max_workers=min(len(networks), 5))
MaxWorkers == 5

None == "None"

\* Keys of self.network_configs, in registration order.
network_configs ==
    <<"ethereum", "polygon", "arbitrum", "optimism", "bsc",
      "avalanche", "goerli", "sepolia", "mumbai">>

Registered == {network_configs[i] : i \in 1..Len(network_configs)}

\* A network name a configuration file may carry that the registry lacks.
UnknownNetwork == "localnet"

\* The names a job configuration is drawn from, in the order it lists them.
Candidates == SubSeq(network_configs, 1, MaxNetworks) \o <<UnknownNetwork>>

\* The three strategies execute_deployment knows, and one it does not.
ValidStrategies == {"simultaneous", "sequential", "coordinated"}

Strategies == ValidStrategies \cup {"rolling"}

\* d.get(k, default)
Get(d, k, default) == IF k \in DOMAIN d THEN d[k] ELSE default

Range(s) == {s[i] : i \in 1..Len(s)}

Min(a, b) == IF a < b THEN a ELSE b

(***************************************************************************)
(* Dictionaries in insertion order.                                        *)
(***************************************************************************)
Keys(d) == [i \in 1..Len(d) |-> d[i].key]

KeySet(d) == {d[i].key : i \in 1..Len(d)}

Values(d) == [i \in 1..Len(d) |-> d[i].value]

Lookup(d, k) == (CHOOSE i \in 1..Len(d) : d[i].key = k)

\* d[k]
Item(d, k) == d[Lookup(d, k)].value

\* d[k] = v: a new key goes last, a present key keeps its place.
DictSet(d, k, v) ==
    IF k \in KeySet(d)
    THEN [d EXCEPT ![Lookup(d, k)] = [key |-> k, value |-> v]]
    ELSE Append(d, [key |-> k, value |-> v])

\* d.update(e)
RECURSIVE DictUpdate(_, _)
DictUpdate(d, e) ==
    IF e = <<>> THEN d
    ELSE DictUpdate(DictSet(d, Head(e).key, Head(e).value), Tail(e))

(***************************************************************************)
(* Job configurations.                                                     *)
(***************************************************************************)
\* The per-network settings create_deployment_config writes.
TemplateSettings ==
    [enabled |-> TRUE, priority |-> 1, customGasPrice |-> None,
     customTimeout |-> 300000, skipVerification |-> FALSE]

\* Settings as a configuration file may carry them: the template, a later
\* priority, a network switched off, or "enabled" and "priority" left out.
NetworkSettings ==
    {TemplateSettings,
     [TemplateSettings EXCEPT !.priority = 2],
     [TemplateSettings EXCEPT !.enabled = FALSE],
     [customGasPrice |-> None, skipVerification |-> FALSE]}

\* config["networks"] over the first k candidate names.
RECURSIVE NetworkDicts(_)
NetworkDicts(k) ==
    IF k = 0 THEN {<<>>}
    ELSE LET prev == NetworkDicts(k - 1)
         IN  prev \cup {Append(d, [key |-> Candidates[k], value |-> s]) :
                            d \in prev, s \in NetworkSettings}

\* config["deployment"] as create_deployment_config writes it.
DeploymentSection(strategy) ==
    [contract |-> "Token", strategy |-> strategy, retryAttempts |-> 3,
     retryDelay |-> 5000, verificationEnabled |-> TRUE]

\* create_deployment_config puts the per-network settings under
\* config["networks"] only; a configuration file may repeat them under
\* config["deployment"]["networks"].
Configs ==
    {[deployment |-> DeploymentSection(s), networks |-> d] :
        s \in Strategies, d \in NetworkDicts(Len(Candidates))}
    \cup
    {[deployment |-> [networks |-> d] @@ DeploymentSection(s), networks |-> d] :
        s \in Strategies, d \in NetworkDicts(Len(Candidates))}

\* Per-network settings for one call of deploy_to_network: the template,
\* verification skipped, or only the gas price given.
AttemptSettings ==
    {TemplateSettings,
     [TemplateSettings EXCEPT !.skipVerification = TRUE],
     [customGasPrice |-> None]}

\* Jobs over one network, with verification switched on or off.
AttemptConfigs ==
    {[deployment |-> [networks |-> d, verificationEnabled |-> v]
                        @@ DeploymentSection("simultaneous"),
      networks |-> d] :
        v \in BOOLEAN,
        d \in {<<[key |-> n, value |-> s]>> :
                  n \in Range(Candidates), s \in AttemptSettings}}

\* Lines 122-150: the registered chains get the template settings, the
\* others a warning.
create_deployment_config(chains) ==
    LET Known(chain) == chain \in Registered
        known == SelectSeq(chains, Known)
    IN  [deployment |-> DeploymentSection("simultaneous"),
         networks |-> [i \in 1..Len(known) |->
                          [key |-> known[i], value |-> TemplateSettings]]]

\* "priority": 1,  # 1-5, lower = higher priority; 0 is as good an integer.
Priorities == {0, 1, 2, 3}

\* The template with its priority edited or deleted.
PrioritySettings ==
    {[TemplateSettings EXCEPT !.priority = p] : p \in Priorities}
    \cup {[enabled |-> TRUE, customGasPrice |-> None,
           customTimeout |-> 300000, skipVerification |-> FALSE]}

\* A configuration written by create_deployment_config for the first
\* MaxNetworks + 1 registered chains, edited afterwards: another strategy,
\* other priorities.
PriorityConfigs ==
    LET written == create_deployment_config(
                       SubSeq(network_configs, 1, MaxNetworks + 1))
        k == Len(written.networks)
    IN  {[deployment |-> [written.deployment EXCEPT !.strategy = s],
          networks |-> [i \in 1..k |->
                           [key |-> written.networks[i].key, value |-> f[i]]]] :
            s \in {"sequential", "coordinated"},
            f \in [1..k -> PrioritySettings]}

\* Configurations as create_deployment_config writes them, for the first
\* 1..MaxTargets registered chains.
PoolConfigs ==
    {create_deployment_config(SubSeq(network_configs, 1, k)) :
        k \in 1..Min(MaxTargets, Len(network_configs))}

\* The list as it would be if "enabled" were not read.
EnabledNetworksAll(cfg) == Keys(cfg.networks)

\* networks = [net for net, settings in config["networks"].items()
\*             if settings.get("enabled", True)]
EnabledNetworks(cfg) ==
    LET IsEnabled(e) == Get(e.value, "enabled", TRUE)
    IN  Keys(SelectSeq(cfg.networks, IsEnabled))

PriorityOf(cfg, n) == Get(Item(cfg.networks, n), "priority", 1)

\* The sort as it would be if it were not stable: a network goes before
\* the networks of its own priority.
RECURSIVE InsertByPriorityUnstable(_, _, _)
InsertByPriorityUnstable(cfg, s, n) ==
    IF s = <<>> THEN <<n>>
    ELSE IF PriorityOf(cfg, n) <= PriorityOf(cfg, Head(s))
         THEN <<n>> \o s
         ELSE <<Head(s)>> \o InsertByPriorityUnstable(cfg, Tail(s), n)

\* sorted(networks, key=priority): a stable insertion sort.
RECURSIVE InsertByPriority(_, _, _)
InsertByPriority(cfg, s, n) ==
    IF s = <<>> THEN <<n>>
    ELSE IF PriorityOf(cfg, n) < PriorityOf(cfg, Head(s))
         THEN <<n>> \o s
         ELSE <<Head(s)>> \o InsertByPriority(cfg, Tail(s), n)

RECURSIVE SortedNetworks(_, _)
SortedNetworks(cfg, nets) ==
    IF nets = <<>> THEN <<>>
    ELSE InsertByPriority(cfg,
            SortedNetworks(cfg, SubSeq(nets, 1, Len(nets) - 1)),
            nets[Len(nets)])

(***************************************************************************)
(* deploy_to_network                                                       *)
(***************************************************************************)
\* Program output is a sequence of lines and a line a sequence of words.
\* Words the regular expressions of parse_deployment_output look for: two
\* contract addresses (0x and 40 hex digits), a transaction hash (0x and 64
\* hex digits) and a decimal numeral.
AddressA == "0x5FbDB2315678afecb367f032d93F642f64180aa3"

AddressB == "0xe7f1725E7734CE288F8367e1Bb143E90bb3F0512"

Addresses == {AddressA, AddressB}

TxHash ==
    "0x9c2f4d1e7a3b5c6d8e9f0a1b2c3d4e5f6a7b8c9d0e1f2a3b4c5d6e7f8a9b0c1d"

TxHashes == {TxHash}

\* What r'0x[a-fA-F0-9]{40}' matches at a transaction hash: its first 40
\* hex digits.
TxHashPrefix == (TxHash :> "0x9c2f4d1e7a3b5c6d8e9f0a1b2c3d4e5f6a7b8c9d")

\* int(numeral)
Numerals == ("21000" :> 21000)

\* Standard output of a deploy script that exits with status 0.
Stdouts ==
    {<<<<"Token", "deployed">>>>,
     <<<<"Token", "deployed to:", AddressA>>>>,
     <<<<"Token", "deployed to:", AddressB, "by", AddressA>>>>,
     <<<<"Deploying", "with", AddressA>>,
       <<"Contract address:", AddressB>>,
       <<"Transaction hash:", TxHash>>,
       <<"Gas used:", "21000">>>>,
     <<<<"Deployer", AddressA>>, <<"Token", "at", AddressB>>>>,
     <<<<"Transaction hash:", TxHash>>>>}

\* What `npx hardhat run` can do under subprocess.run(cmd, ..., timeout=...)
\* when it does not succeed: exit with another status, run into the timeout,
\* or fail to start.
FailedRuns ==
    {[kind |-> "CompletedProcess", returncode |-> 1,
      stdout |-> <<>>, stderr |-> "HH108: cannot connect"],
     [kind |-> "TimeoutExpired", message |-> "Command timed out"],
     [kind |-> "FileNotFoundError", message |-> "No such file: npx"]}

\* Every behaviour of the deploy script: the three failures, an exit with
\* status 1 after the address was printed, and the exits with status 0.
DeployRun ==
    FailedRuns \cup
    {[kind |-> "CompletedProcess", returncode |-> 1,
      stdout |-> <<<<"Token", "deployed to:", AddressA>>>>,
      stderr |-> "HH700: artifact not saved"]} \cup
    {[kind |-> "CompletedProcess", returncode |-> 0,
      stdout |-> s, stderr |-> ""] : s \in Stdouts}

\* The behaviours of the deploy script followed through the strategies: it
\* fails in one of the three ways or prints the address it deployed to.
SubprocessRun ==
    FailedRuns \cup
    {[kind |-> "CompletedProcess", returncode |-> 0,
      stdout |-> <<<<"Token", "deployed to:", AddressA>>>>, stderr |-> ""]}

\* `npx hardhat verify` exits with status 0.
Verified ==
    [kind |-> "CompletedProcess", returncode |-> 0,
     stdout |-> <<<<"Successfully", "verified">>>>, stderr |-> ""]

\* What `npx hardhat verify` can do under subprocess.run.
VerifyRun ==
    {Verified,
     [kind |-> "CompletedProcess", returncode |-> 1,
      stdout |-> <<>>, stderr |-> "Etherscan: invalid API key"],
     [kind |-> "TimeoutExpired", message |-> "Command timed out"],
     [kind |-> "FileNotFoundError", message |-> "No such file: npx"]}

\* str(KeyError(k))
KeyErrorText(k) == "'" \o k \o "'"

Raise(type, message) == [raised |-> type, message |-> message]

Return(value) == [raised |-> None, value |-> value]

\* How a call ended, with the commands it handed to subprocess.run.
Outcome(calls, end) == [calls |-> calls] @@ end

\* {}
EmptyDict == [k \in {} |-> None]

\* re.findall(r'0x[a-fA-F0-9]{40}', line)
RECURSIVE FindAddresses(_)
FindAddresses(line) ==
    IF line = <<>> THEN <<>>
    ELSE LET word == Head(line)
             match == IF word \in Addresses THEN <<word>>
                      ELSE IF word \in TxHashes THEN <<TxHashPrefix[word]>>
                      ELSE <<>>
         IN  match \o FindAddresses(Tail(line))

\* re.findall(r'0x[a-fA-F0-9]{64}', line)
FindTxHashes(line) ==
    LET IsTxHash(word) == word \in TxHashes
    IN  SelectSeq(line, IsTxHash)

\* re.search(r'Gas used:\s*(\d+)', line): the numerals that follow the label.
FindGasUsed(line) ==
    LET Follows(i) == /\ i > 1
                      /\ line[i - 1] = "Gas used:"
                      /\ line[i] \in DOMAIN Numerals
        IsMatch(word) == \E i \in 1..Len(line) : line[i] = word /\ Follows(i)
    IN  SelectSeq(line, IsMatch)

\* One turn of `for line in lines`.
ParseLine(deployment_info, line) ==
    IF "Contract address:" \in Range(line) \/ "deployed to:" \in Range(line)
    THEN IF FindAddresses(line) # <<>>
         THEN [contractAddress |-> FindAddresses(line)[1]] @@ deployment_info
         ELSE deployment_info
    ELSE IF "Transaction hash:" \in Range(line)
    THEN IF FindTxHashes(line) # <<>>
         THEN [transactionHash |-> FindTxHashes(line)[1]] @@ deployment_info
         ELSE deployment_info
    ELSE IF "Gas used:" \in Range(line)
    THEN IF FindGasUsed(line) # <<>>
         THEN [gasUsed |-> Numerals[FindGasUsed(line)[1]]] @@ deployment_info
         ELSE deployment_info
    ELSE deployment_info

RECURSIVE ParseLines(_, _)
ParseLines(deployment_info, lines) ==
    IF lines = <<>> THEN deployment_info
    ELSE ParseLines(ParseLine(deployment_info, Head(lines)), Tail(lines))

RECURSIVE Concat(_)
Concat(lines) ==
    IF lines = <<>> THEN <<>> ELSE Head(lines) \o Concat(Tail(lines))

\* Lines 250-281: the labelled lines first; without an address from them,
\* the last address anywhere in the output.
parse_deployment_output(output) ==
    LET deployment_info == ParseLines(EmptyDict, output)
        addresses == FindAddresses(Concat(output))
    IN  IF "contractAddress" \notin DOMAIN deployment_info /\ addresses # <<>>
        THEN [contractAddress |-> addresses[Len(addresses)]] @@ deployment_info
        ELSE deployment_info

\* verify_contract as it would be without its try/except: what subprocess.run
\* raises leaves it.
verify_contract_unguarded(network, deployment_info, bound, verify) ==
    LET contract_address == Get(deployment_info, "contractAddress", None)
        cmd == [command |-> "verify", network |-> network,
                address |-> contract_address, timeout |-> 120000]
    IN  IF contract_address = None
        THEN Outcome(<<>>, Return([success |-> FALSE,
                                   error |-> "No contract address found"]))
        ELSE IF ~bound
        THEN Outcome(<<>>,
                     Raise("NameError", "name 'subprocess' is not defined"))
        ELSE IF verify.kind # "CompletedProcess"
        THEN Outcome(<<cmd>>, Raise(verify.kind, verify.message))
        ELSE IF verify.returncode = 0
        THEN Outcome(<<cmd>>,
                     Return([success |-> TRUE,
                             message |-> "Contract verified successfully",
                             output |-> verify.stdout]))
        ELSE Outcome(<<cmd>>,
                     Return([success |-> FALSE, error |-> verify.stderr,
                             output |-> verify.stdout]))

\* Lines 283-323, with `verify` what `npx hardhat verify` does if it is
\* reached.
verify_contract(network, deployment_info, bound, verify) ==
    LET contract_address == Get(deployment_info, "contractAddress", None)
        cmd == [command |-> "verify", network |-> network,
                address |-> contract_address, timeout |-> 120000]
    IN  IF contract_address = None
        THEN Outcome(<<>>, Return([success |-> FALSE,
                                   error |-> "No contract address found"]))
        ELSE IF ~bound
        THEN Outcome(<<>>,
                     Raise("NameError", "name 'subprocess' is not defined"))
        ELSE IF verify.kind = "TimeoutExpired"
        THEN Outcome(<<cmd>>,
                     Return([success |-> FALSE,
                             error |-> "Verification timed out"]))
        ELSE IF verify.kind # "CompletedProcess"
        THEN Outcome(<<cmd>>,
                     Return([success |-> FALSE, error |-> verify.message]))
        ELSE IF verify.returncode = 0
        THEN Outcome(<<cmd>>,
                     Return([success |-> TRUE,
                             message |-> "Contract verified successfully",
                             output |-> verify.stdout]))
        ELSE Outcome(<<cmd>>,
                     Return([success |-> FALSE, error |-> verify.stderr,
                             output |-> verify.stdout]))

\* Lines 208-225 as they would be if skipVerification were not read.
DeploymentSucceededNoSkip(network, cfg, bound, run, verify, cmd) ==
    LET deployment_info ==
            [network |-> network] @@ parse_deployment_output(run.stdout)
        verification == verify_contract(network, deployment_info, bound, verify)
        Success(info) ==
            Return([success |-> TRUE, network |-> network,
                    deployment |-> info, output |-> run.stdout])
    IN  IF "verificationEnabled" \notin DOMAIN cfg.deployment
        THEN Outcome(<<cmd>>,
                     Raise("KeyError", KeyErrorText("verificationEnabled")))
        ELSE IF ~cfg.deployment.verificationEnabled
        THEN Outcome(<<cmd>>, Success(deployment_info))
        ELSE IF verification.raised # None
        THEN Outcome(<<cmd>> \o verification.calls,
                     Raise(verification.raised, verification.message))
        ELSE Outcome(<<cmd>> \o verification.calls,
                     Success([verification |-> verification.value]
                                 @@ deployment_info))

\* Lines 208-225: the deploy script exited with status 0.
DeploymentSucceeded(network, cfg, bound, run, verify, cmd) ==
    LET network_settings == Item(cfg.deployment.networks, network)
        deployment_info ==
            [network |-> network] @@ parse_deployment_output(run.stdout)
        verification == verify_contract(network, deployment_info, bound, verify)
        Success(info) ==
            Return([success |-> TRUE, network |-> network,
                    deployment |-> info, output |-> run.stdout])
    IN  IF "verificationEnabled" \notin DOMAIN cfg.deployment
        THEN Outcome(<<cmd>>,
                     Raise("KeyError", KeyErrorText("verificationEnabled")))
        ELSE IF ~cfg.deployment.verificationEnabled
                \/ Get(network_settings, "skipVerification", FALSE)
        THEN Outcome(<<cmd>>, Success(deployment_info))
        ELSE IF verification.raised # None
        THEN Outcome(<<cmd>> \o verification.calls,
                     Raise(verification.raised, verification.message))
        ELSE Outcome(<<cmd>> \o verification.calls,
                     Success([verification |-> verification.value]
                                 @@ deployment_info))

\* The body of the try statement as it would be if the exit status were not
\* tested: whatever the deploy script exits with counts as a deployment.
DeployToNetworkBodyAnyExit(network, cfg, bound, run, verify) ==
    IF network \notin Registered
    THEN Outcome(<<>>, Raise("KeyError", KeyErrorText(network)))
    ELSE IF "networks" \notin DOMAIN cfg.deployment
    THEN Outcome(<<>>, Raise("KeyError", KeyErrorText("networks")))
    ELSE IF network \notin KeySet(cfg.deployment.networks)
    THEN Outcome(<<>>, Raise("KeyError", KeyErrorText(network)))
    ELSE IF ~bound
    THEN Outcome(<<>>, Raise("NameError", "name 'subprocess' is not defined"))
    ELSE LET network_settings == Item(cfg.deployment.networks, network)
             cmd == [command |-> "run", network |-> network,
                     timeout |-> Get(network_settings, "customTimeout", 300000)]
         IN  IF run.kind # "CompletedProcess"
             THEN Outcome(<<cmd>>, Raise(run.kind, run.message))
             ELSE DeploymentSucceeded(network, cfg, bound, run, verify, cmd)

\* The body of the try statement, with `run` what the deploy script does if
\* it is reached.  The name `subprocess` is bound only by the import under
\* `if __name__ == "__main__"`.
DeployToNetworkBody(network, cfg, bound, run, verify) ==
    IF network \notin Registered
    THEN Outcome(<<>>, Raise("KeyError", KeyErrorText(network)))
    ELSE IF "networks" \notin DOMAIN cfg.deployment
    THEN Outcome(<<>>, Raise("KeyError", KeyErrorText("networks")))
    ELSE IF network \notin KeySet(cfg.deployment.networks)
    THEN Outcome(<<>>, Raise("KeyError", KeyErrorText(network)))
    ELSE IF ~bound
    THEN Outcome(<<>>, Raise("NameError", "name 'subprocess' is not defined"))
    ELSE LET network_settings == Item(cfg.deployment.networks, network)
             cmd == [command |-> "run", network |-> network,
                     timeout |-> Get(network_settings, "customTimeout", 300000)]
         IN  IF run.kind # "CompletedProcess"
             THEN Outcome(<<cmd>>, Raise(run.kind, run.message))
             ELSE IF run.returncode = 0
             THEN DeploymentSucceeded(network, cfg, bound, run, verify, cmd)
             ELSE Outcome(<<cmd>>,
                          Return([success |-> FALSE, network |-> network,
                                  error |-> run.stderr, output |-> run.stdout]))

\* The except clauses: `except subprocess.TimeoutExpired` is evaluated first
\* and itself needs the name `subprocess`.
deploy_to_network(network, cfg, bound, run, verify) ==
    LET body == DeployToNetworkBody(network, cfg, bound, run, verify)
    IN  IF body.raised = None THEN body
        ELSE IF ~bound
        THEN Outcome(body.calls,
                     Raise("NameError", "name 'subprocess' is not defined"))
        ELSE IF body.raised = "TimeoutExpired"
        THEN Outcome(body.calls,
                     Return([success |-> FALSE, network |-> network,
                             error |-> "Deployment timed out"]))
        ELSE Outcome(body.calls,
                     Return([success |-> FALSE, network |-> network,
                             error |-> body.message]))

(***************************************************************************)
(* generate_deployment_report                                              *)
(***************************************************************************)
\* datetime.now().isoformat() at two moments.
Timestamps == {"2026-01-01T00:00:00", "2026-01-01T00:00:01"}

ReportSummary(results, cfg, now) ==
    LET Succeeded(e) == e.value.success
        Failed(e) == ~e.value.success
    IN  [totalNetworks |-> Len(results),
         successfulDeployments |-> Len(SelectSeq(results, Succeeded)),
         failedDeployments |-> Len(SelectSeq(results, Failed)),
         deploymentStrategy |-> cfg.deployment.strategy,
         contract |-> cfg.deployment.contract,
         timestamp |-> now]

\* The entry as it would be with the error read as the console messages
\* read it, result.get('error', 'Unknown error'), whatever the result says.
ReportEntryUnknownError(result) ==
    LET deployment == Get(result, "deployment", [network |-> None])
        IfSuccess(field) ==
            IF result.success THEN Get(deployment, field, None) ELSE None
    IN  [success |-> result.success,
         contractAddress |-> IfSuccess("contractAddress"),
         transactionHash |-> IfSuccess("transactionHash"),
         gasUsed |-> IfSuccess("gasUsed"),
         verification |-> IfSuccess("verification"),
         error |-> Get(result, "error", "Unknown error"),
         output |-> Get(result, "output", <<>>)]

\* Lines 482-490: one entry of report["networks"].
ReportEntry(result) ==
    LET deployment == Get(result, "deployment", [network |-> None])
        IfSuccess(field) ==
            IF result.success THEN Get(deployment, field, None) ELSE None
    IN  [success |-> result.success,
         contractAddress |-> IfSuccess("contractAddress"),
         transactionHash |-> IfSuccess("transactionHash"),
         gasUsed |-> IfSuccess("gasUsed"),
         verification |-> IfSuccess("verification"),
         error |-> IF ~result.success THEN Get(result, "error", None) ELSE None,
         output |-> Get(result, "output", <<>>)]

BuildReport(results, cfg, now) ==
    [summary |-> ReportSummary(results, cfg, now),
     networks |-> [i \in 1..Len(results) |->
                      [key |-> results[i].key,
                       value |-> ReportEntry(results[i].value)]]]

\* generate_markdown_report reads summary['contract'], summary['strategy'],
\* summary['totalNetworks'], ...: the first key the summary lacks raises.
MarkdownSummaryKeys ==
    <<"contract", "strategy", "totalNetworks", "successfulDeployments",
      "failedDeployments", "timestamp">>

generate_markdown_report(report) ==
    LET Missing(k) == k \notin DOMAIN report.summary
        missing == SelectSeq(MarkdownSummaryKeys, Missing)
    IN  IF missing # <<>>
        THEN Raise("KeyError", KeyErrorText(Head(missing)))
        ELSE Return("markdown")

\* print_deployment_summary: the same keys, then
\* successfulDeployments/totalNetworks*100.
print_deployment_summary(report) ==
    IF "strategy" \notin DOMAIN report.summary
    THEN Raise("KeyError", KeyErrorText("strategy"))
    ELSE IF report.summary.totalNetworks = 0
    THEN Raise("ZeroDivisionError", "division by zero")
    ELSE Return(None)

\* What generate_deployment_report does after the JSON file is written.
RenderReport(report) ==
    LET markdown == generate_markdown_report(report)
    IN  IF markdown.raised # None THEN markdown
        ELSE print_deployment_summary(report)

(***************************************************************************)
(* State.                                                                  *)
(***************************************************************************)
VARIABLES
    config,           \* the job configuration handed to execute_deployment
    subprocess_bound, \* the module ran as __main__ and imported subprocess
    pc,               \* where the control thread stands
    raised,           \* the exception execute_deployment ended with, or None
    sim_networks,     \* deploy_simultaneous: its `networks` argument
    sim_return,       \* deploy_simultaneous: where its caller continues
    futures,          \* deploy_simultaneous: future_to_network, with states
    sim_results,      \* deploy_simultaneous: its local `results`
    seq_i,            \* deploy_sequential: the loop index i
    results,          \* the strategy routine's `results`
    dispatched,       \* every deploy_to_network call so far, in start order
    sleeps,           \* every time.sleep so far, by duration
    responses,        \* every answer input() gave so far
    report,           \* <<the report dictionary>> once built, <<>> before
    reports_written   \* how many JSON report files were written

vars ==
    <<config, subprocess_bound, pc, raised, sim_networks, sim_return, futures,
      sim_results, seq_i, results, dispatched, sleeps, responses, report,
      reports_written>>

deployment_strategy == config.deployment.strategy

networks == EnabledNetworks(config)

sorted_networks == SortedNetworks(config, networks)

\* priority_networks and remaining_networks of deploy_coordinated
priority_networks ==
    LET IsPriority(n) == PriorityOf(config, n) = 1
    IN  SelectSeq(networks, IsPriority)

remaining_networks ==
    LET Remains(n) == n \notin Range(priority_networks)
    IN  SelectSeq(networks, Remains)

max_workers == Min(Len(sim_networks), MaxWorkers)

IsPending(n) == n \in DOMAIN futures /\ futures[n].state = "pending"

FuturesIn(state) == {n \in DOMAIN futures : futures[n].state = state}

\* The networks whose deploy_to_network call is under way.
Running ==
    FuturesIn("running")
    \cup (IF pc = "seq_call" THEN {sorted_networks[seq_i]} ELSE {})

Init ==
    /\ config \in Configs
    /\ subprocess_bound \in BOOLEAN
    /\ pc = "execute"
    /\ raised = None
    /\ sim_networks = <<>>
    /\ sim_return = None
    /\ futures = <<>>
    /\ sim_results = <<>>
    /\ seq_i = 0
    /\ results = <<>>
    /\ dispatched = <<>>
    /\ sleeps = <<>>
    /\ responses = <<>>
    /\ report = <<>>
    /\ reports_written = 0

(***************************************************************************)
(* execute_deployment                                                      *)
(***************************************************************************)
\* Lines 327-345 as they would be if the final else ran the default
\* strategy of create_deployment_config instead of raising.
ExecuteDeploymentDefault ==
    /\ pc = "execute"
    /\ pc' = CASE deployment_strategy = "sequential" -> "seq_loop"
               [] deployment_strategy = "coordinated" -> "coord_phase1"
               [] OTHER -> "sim_submit"
    /\ raised' = None
    /\ sim_networks' = IF deployment_strategy \notin {"sequential", "coordinated"}
                       THEN networks ELSE <<>>
    /\ sim_return' = IF deployment_strategy \notin {"sequential", "coordinated"}
                     THEN "report" ELSE None
    /\ seq_i' = IF deployment_strategy = "sequential" THEN 1 ELSE 0
    /\ UNCHANGED <<config, subprocess_bound, futures, sim_results, results,
                   dispatched, sleeps, responses, report, reports_written>>

\* Lines 327-345: the strategy picks the routine; any other value raises.
ExecuteDeployment ==
    /\ pc = "execute"
    /\ pc' = CASE deployment_strategy = "simultaneous" -> "sim_submit"
               [] deployment_strategy = "sequential" -> "seq_loop"
               [] deployment_strategy = "coordinated" -> "coord_phase1"
               [] OTHER -> "raised"
    /\ raised' = IF deployment_strategy \in ValidStrategies
                 THEN None ELSE "ValueError"
    /\ sim_networks' = IF deployment_strategy = "simultaneous"
                       THEN networks ELSE <<>>
    /\ sim_return' = IF deployment_strategy = "simultaneous"
                     THEN "report" ELSE None
    /\ seq_i' = IF deployment_strategy = "sequential" THEN 1 ELSE 0
    /\ UNCHANGED <<config, subprocess_bound, futures, sim_results, results,
                   dispatched, sleeps, responses, report, reports_written>>

(***************************************************************************)
(* deploy_simultaneous                                                     *)
(***************************************************************************)
\* deploy_simultaneous as it would be if it submitted the calls and returned
\* without waiting for them.
SimSubmitDetached ==
    /\ pc = "sim_submit"
    /\ IF max_workers <= 0
       THEN /\ pc' = "raised"
            /\ raised' = "ValueError"
            /\ UNCHANGED futures
       ELSE /\ pc' = sim_return
            /\ futures' = [n \in Range(sim_networks) |-> [state |-> "pending"]]
            /\ UNCHANGED raised
    /\ UNCHANGED <<config, subprocess_bound, sim_networks, sim_return,
                   sim_results, seq_i, results, dispatched, sleeps, responses,
                   report, reports_written>>

\* ThreadPoolExecutor(max_workers=...) refuses max_workers = 0; otherwise
\* every network is submitted.
SimSubmit ==
    /\ pc = "sim_submit"
    /\ IF max_workers <= 0
       THEN /\ pc' = "raised"
            /\ raised' = "ValueError"
            /\ UNCHANGED futures
       ELSE /\ pc' = "sim_collect"
            /\ futures' = [n \in Range(sim_networks) |-> [state |-> "pending"]]
            /\ UNCHANGED raised
    /\ UNCHANGED <<config, subprocess_bound, sim_networks, sim_return,
                   sim_results, seq_i, results, dispatched, sleeps, responses,
                   report, reports_written>>

\* The pool as it would be with a thread per submitted call: the oldest
\* submitted call starts whatever the number of calls under way.
WorkerStartUncapped(n) ==
    /\ n = Head(SelectSeq(sim_networks, IsPending) \o <<None>>)
    /\ futures' = [futures EXCEPT ![n] = [state |-> "running"]]
    /\ dispatched' = Append(dispatched, n)
    /\ UNCHANGED <<config, subprocess_bound, pc, raised, sim_networks,
                   sim_return, sim_results, seq_i, results, sleeps, responses,
                   report, reports_written>>

\* A worker thread takes the oldest submitted call off the pool's work queue
\* and enters deploy_to_network.
WorkerStart(n) ==
    /\ n = Head(SelectSeq(sim_networks, IsPending) \o <<None>>)
    /\ Cardinality(FuturesIn("running")) < max_workers
    /\ futures' = [futures EXCEPT ![n] = [state |-> "running"]]
    /\ dispatched' = Append(dispatched, n)
    /\ UNCHANGED <<config, subprocess_bound, pc, raised, sim_networks,
                   sim_return, sim_results, seq_i, results, sleeps, responses,
                   report, reports_written>>

\* The worker as it would be if retryAttempts were honoured: a call that
\* did not succeed is submitted again until the target has had
\* retryAttempts calls.
WorkerFinishRetry(n) ==
    /\ n \in FuturesIn("running")
    /\ \E run \in SubprocessRun :
        LET outcome == deploy_to_network(n, config, subprocess_bound, run,
                                         Verified)
            IsN(m) == m = n
            calls == Len(SelectSeq(dispatched, IsN))
            succeeded == outcome.raised = None /\ outcome.value.success
        IN  futures' = [futures EXCEPT ![n] =
                IF ~succeeded /\ calls < config.deployment.retryAttempts
                THEN [state |-> "pending"]
                ELSE [state |-> "finished", outcome |-> outcome]]
    /\ UNCHANGED <<config, subprocess_bound, pc, raised, sim_networks,
                   sim_return, sim_results, seq_i, results, dispatched,
                   sleeps, responses, report, reports_written>>

\* The worker as it would be with subprocess.run given no timeout and a
\* deploy script that never exits: the call stays where it is.
WorkerHangs(n) ==
    /\ n \in FuturesIn("running")
    /\ UNCHANGED vars

\* deploy_to_network ends in the worker: the future holds what it returned
\* or raised.
WorkerFinish(n) ==
    /\ n \in FuturesIn("running")
    /\ \E run \in SubprocessRun :
        futures' = [futures EXCEPT ![n] =
            [state |-> "finished",
             outcome |-> deploy_to_network(n, config, subprocess_bound, run,
                                          Verified)]]
    /\ UNCHANGED <<config, subprocess_bound, pc, raised, sim_networks,
                   sim_return, sim_results, seq_i, results, dispatched,
                   sleeps, responses, report, reports_written>>

\* deploy_to_network ends in the worker, whatever the two hardhat commands
\* do; the future keeps what they did next to what the call returned or
\* raised.
AttemptFinish(n) ==
    /\ n \in FuturesIn("running")
    /\ \E run \in DeployRun, verify \in VerifyRun :
        futures' = [futures EXCEPT ![n] =
            [state |-> "finished", run |-> run, verify |-> verify,
             outcome |-> deploy_to_network(n, config, subprocess_bound, run,
                                          verify)]]
    /\ UNCHANGED <<config, subprocess_bound, pc, raised, sim_networks,
                   sim_return, sim_results, seq_i, results, dispatched,
                   sleeps, responses, report, reports_written>>

\* The loop body as it would be without the try/except around
\* future.result(): what the call raised leaves deploy_simultaneous.
SimCollectUnguarded(n) ==
    /\ pc = "sim_collect"
    /\ n \in FuturesIn("finished")
    /\ LET outcome == futures[n].outcome
       IN  IF outcome.raised = None
           THEN /\ sim_results' = DictSet(sim_results, n, outcome.value)
                /\ UNCHANGED <<pc, raised>>
           ELSE /\ pc' = "raised"
                /\ raised' = outcome.raised
                /\ UNCHANGED sim_results
    /\ futures' = [futures EXCEPT ![n] = [state |-> "collected"]]
    /\ UNCHANGED <<config, subprocess_bound, sim_networks, sim_return, seq_i,
                   results, dispatched, sleeps, responses, report,
                   reports_written>>

\* One turn of `for future in as_completed(future_to_network)`.
SimCollect(n) ==
    /\ pc = "sim_collect"
    /\ n \in FuturesIn("finished")
    /\ LET outcome == futures[n].outcome
           result == IF outcome.raised = None
                     THEN outcome.value
                     ELSE [success |-> FALSE, network |-> n,
                           error |-> outcome.message]
       IN  sim_results' = DictSet(sim_results, n, result)
    /\ futures' = [futures EXCEPT ![n] = [state |-> "collected"]]
    /\ UNCHANGED <<config, subprocess_bound, pc, raised, sim_networks,
                   sim_return, seq_i, results, dispatched, sleeps, responses,
                   report, reports_written>>

\* deploy_simultaneous as it would be if it returned from inside the
\* as_completed loop, after the first collected future, with the pool left
\* running.
SimReturnEarly ==
    /\ pc = "sim_collect"
    /\ FuturesIn("collected") # {}
    /\ results' = DictUpdate(results, sim_results)
    /\ pc' = sim_return
    /\ sim_results' = <<>>
    /\ UNCHANGED <<config, subprocess_bound, raised, sim_networks, sim_return,
                   futures, seq_i, dispatched, sleeps, responses, report,
                   reports_written>>

\* as_completed is exhausted, the pool is shut down, `return results`; the
\* caller takes the dictionary (execute_deployment) or merges it
\* (deploy_coordinated: results.update).
SimReturn ==
    /\ pc = "sim_collect"
    /\ FuturesIn("collected") = DOMAIN futures
    /\ results' = DictUpdate(results, sim_results)
    /\ pc' = sim_return
    /\ futures' = <<>>
    /\ sim_results' = <<>>
    /\ sim_networks' = <<>>
    /\ sim_return' = None
    /\ UNCHANGED <<config, subprocess_bound, raised, seq_i, dispatched,
                   sleeps, responses, report, reports_written>>

(***************************************************************************)
(* deploy_sequential                                                       *)
(***************************************************************************)
\* The loop head: the next network is deployed, or the loop is over.
SeqNext ==
    /\ pc = "seq_loop"
    /\ IF seq_i <= Len(sorted_networks)
       THEN /\ pc' = "seq_call"
            /\ dispatched' = Append(dispatched, sorted_networks[seq_i])
       ELSE /\ pc' = "report"
            /\ UNCHANGED dispatched
    /\ UNCHANGED <<config, subprocess_bound, raised, sim_networks, sim_return,
                   futures, sim_results, seq_i, results, sleeps, responses,
                   report, reports_written>>

\* Lines 408-425 as they would be if the prompt did not depend on the
\* result: it follows every attempt but the last.
SeqCallEndsAlwaysAsks ==
    /\ pc = "seq_call"
    /\ \E run \in SubprocessRun :
        LET network == sorted_networks[seq_i]
            outcome == deploy_to_network(network, config, subprocess_bound,
                                         run, Verified)
            last == seq_i >= Len(sorted_networks)
        IN  IF outcome.raised # None
            THEN /\ pc' = "raised"
                 /\ raised' = outcome.raised
                 /\ UNCHANGED <<results, seq_i, sleeps>>
            ELSE /\ results' = DictSet(results, network, outcome.value)
                 /\ raised' = raised
                 /\ IF ~last
                    THEN /\ pc' = "seq_input"
                         /\ UNCHANGED <<seq_i, sleeps>>
                    ELSE /\ pc' = "seq_loop"
                         /\ seq_i' = seq_i + 1
                         /\ UNCHANGED sleeps
    /\ UNCHANGED <<config, subprocess_bound, sim_networks, sim_return,
                   futures, sim_results, dispatched, responses, report,
                   reports_written>>

\* deploy_to_network comes back: lines 408-425.
SeqCallEnds ==
    /\ pc = "seq_call"
    /\ \E run \in SubprocessRun :
        LET network == sorted_networks[seq_i]
            outcome == deploy_to_network(network, config, subprocess_bound,
                                         run, Verified)
            last == seq_i >= Len(sorted_networks)
        IN  IF outcome.raised # None
            THEN /\ pc' = "raised"
                 /\ raised' = outcome.raised
                 /\ UNCHANGED <<results, seq_i, sleeps>>
            ELSE /\ results' = DictSet(results, network, outcome.value)
                 /\ raised' = raised
                 /\ IF ~outcome.value.success /\ ~last
                    THEN /\ pc' = "seq_input"
                         /\ UNCHANGED <<seq_i, sleeps>>
                    ELSE /\ pc' = "seq_loop"
                         /\ seq_i' = seq_i + 1
                         /\ sleeps' = IF last THEN sleeps ELSE Append(sleeps, 2)
    /\ UNCHANGED <<config, subprocess_bound, sim_networks, sim_return,
                   futures, sim_results, dispatched, responses, report,
                   reports_written>>

\* The prompt as it would be without the `break`: the answer is read and
\* the loop goes on.
SeqInputIgnored ==
    /\ pc = "seq_input"
    /\ \E response \in {"y", "n", ""} :
        responses' = Append(responses, response)
    /\ pc' = "seq_loop"
    /\ seq_i' = seq_i + 1
    /\ sleeps' = Append(sleeps, 2)
    /\ UNCHANGED <<config, subprocess_bound, raised, sim_networks, sim_return,
                   futures, sim_results, results, dispatched, report,
                   reports_written>>

\* input("Continue with remaining networks? (y/N): "): only 'y' goes on.
SeqInput ==
    /\ pc = "seq_input"
    /\ \E response \in {"y", "n", ""} :
        /\ responses' = Append(responses, response)
        /\ IF response # "y"
           THEN /\ pc' = "report"
                /\ UNCHANGED <<seq_i, sleeps>>
           ELSE /\ pc' = "seq_loop"
                /\ seq_i' = seq_i + 1
                /\ sleeps' = Append(sleeps, 2)
    /\ UNCHANGED <<config, subprocess_bound, raised, sim_networks, sim_return,
                   futures, sim_results, results, dispatched, report,
                   reports_written>>

(***************************************************************************)
(* deploy_coordinated                                                      *)
(***************************************************************************)
\* Phase 1 as it would be without `if priority_networks:`: the list goes
\* to deploy_simultaneous as it is.
CoordPhase1Unguarded ==
    /\ pc = "coord_phase1"
    /\ pc' = "sim_submit"
    /\ sim_networks' = priority_networks
    /\ sim_return' = "coord_delay"
    /\ UNCHANGED <<config, subprocess_bound, raised, futures, sim_results,
                   seq_i, results, dispatched, sleeps, responses, report,
                   reports_written>>

\* Lines 440-445: the networks of priority 1, if there are any.
CoordPhase1 ==
    /\ pc = "coord_phase1"
    /\ IF priority_networks # <<>>
       THEN /\ pc' = "sim_submit"
            /\ sim_networks' = priority_networks
            /\ sim_return' = "coord_delay"
       ELSE /\ pc' = "coord_delay"
            /\ UNCHANGED <<sim_networks, sim_return>>
    /\ UNCHANGED <<config, subprocess_bound, raised, futures, sim_results,
                   seq_i, results, dispatched, sleeps, responses, report,
                   reports_written>>

\* time.sleep(10)
CoordDelay ==
    /\ pc = "coord_delay"
    /\ sleeps' = Append(sleeps, 10)
    /\ pc' = "coord_phase3"
    /\ UNCHANGED <<config, subprocess_bound, raised, sim_networks, sim_return,
                   futures, sim_results, seq_i, results, dispatched,
                   responses, report, reports_written>>

\* Phase 3 as it would be if it took every network and not only those
\* phase 1 left.
CoordPhase3All ==
    /\ pc = "coord_phase3"
    /\ IF networks # <<>>
       THEN /\ pc' = "sim_submit"
            /\ sim_networks' = networks
            /\ sim_return' = "report"
       ELSE /\ pc' = "report"
            /\ UNCHANGED <<sim_networks, sim_return>>
    /\ UNCHANGED <<config, subprocess_bound, raised, futures, sim_results,
                   seq_i, results, dispatched, sleeps, responses, report,
                   reports_written>>

CoordPhase3 ==
    /\ pc = "coord_phase3"
    /\ IF remaining_networks # <<>>
       THEN /\ pc' = "sim_submit"
            /\ sim_networks' = remaining_networks
            /\ sim_return' = "report"
       ELSE /\ pc' = "report"
            /\ UNCHANGED <<sim_networks, sim_return>>
    /\ UNCHANGED <<config, subprocess_bound, raised, futures, sim_results,
                   seq_i, results, dispatched, sleeps, responses, report,
                   reports_written>>

(***************************************************************************)
(* generate_deployment_report, and the end of execute_deployment           *)
(***************************************************************************)
\* The report is built and written as JSON; then the markdown rendering and
\* the console summary run, and what they raise leaves execute_deployment.
GenerateDeploymentReport ==
    /\ pc = "report"
    /\ \E now \in Timestamps :
        LET built == BuildReport(results, config, now)
            rendered == RenderReport(built)
        IN  /\ report' = <<built>>
            /\ reports_written' = reports_written + 1
            /\ raised' = rendered.raised
            /\ pc' = IF rendered.raised = None THEN "returned" ELSE "raised"
    /\ UNCHANGED <<config, subprocess_bound, sim_networks, sim_return,
                   futures, sim_results, seq_i, results, dispatched, sleeps,
                   responses>>

Next ==
    \/ ExecuteDeployment
    \/ SimSubmit
    \/ \E n \in DOMAIN futures : WorkerStart(n)
    \/ \E n \in DOMAIN futures : WorkerFinish(n)
    \/ \E n \in DOMAIN futures : SimCollect(n)
    \/ SimReturn
    \/ SeqNext
    \/ SeqCallEnds
    \/ SeqInput
    \/ CoordPhase1
    \/ CoordDelay
    \/ CoordPhase3
    \/ GenerateDeploymentReport

Spec == Init /\ [][Next]_vars

\* The runs followed to their end: jobs that carry the per-network settings
\* under config["deployment"]["networks"] and name the first MaxNetworks
\* registered networks, each enabled, with priority 1 or 2.
FairInit ==
    /\ Init
    /\ "networks" \in DOMAIN config.deployment
    /\ Keys(config.networks) = SubSeq(network_configs, 1, MaxNetworks)
    /\ \A i \in 1..Len(config.networks) :
        config.networks[i].value
            \in {TemplateSettings, [TemplateSettings EXCEPT !.priority = 2]}

\* The control thread and the pool's workers keep being scheduled, the
\* hardhat commands exit or are killed at their timeout, time.sleep returns
\* and input() is answered: a step that can be taken is taken.
FairSpec == FairInit /\ [][Next]_vars /\ WF_vars(Next)

\* execute_deployment has been called and nothing has happened yet.
BeforeExecute ==
    /\ pc = "execute"
    /\ raised = None
    /\ sim_networks = <<>>
    /\ sim_return = None
    /\ futures = <<>>
    /\ sim_results = <<>>
    /\ seq_i = 0
    /\ results = <<>>
    /\ dispatched = <<>>
    /\ sleeps = <<>>
    /\ responses = <<>>
    /\ report = <<>>
    /\ reports_written = 0

(***************************************************************************)
(* The strategies that read the priorities, over configurations whose      *)
(* priorities run from 0 to 3 or are left out.                             *)
(***************************************************************************)
PriorityInit ==
    /\ config \in PriorityConfigs
    /\ subprocess_bound \in BOOLEAN
    /\ BeforeExecute

PriorityNext ==
    \/ ExecuteDeployment
    \/ SimSubmit
    \/ \E n \in DOMAIN futures : WorkerStart(n)
    \/ \E n \in DOMAIN futures : WorkerFinish(n)
    \/ \E n \in DOMAIN futures : SimCollect(n)
    \/ SimReturn
    \/ SeqNext
    \/ SeqCallEnds
    \/ SeqInput
    \/ CoordPhase1
    \/ CoordDelay
    \/ CoordPhase3
    \/ GenerateDeploymentReport

PrioritySpec == PriorityInit /\ [][PriorityNext]_vars

(***************************************************************************)
(* One worker pool over up to MaxTargets networks: the simultaneous        *)
(* strategy on configurations as create_deployment_config writes them.     *)
(***************************************************************************)
PoolInit ==
    /\ config \in PoolConfigs
    /\ subprocess_bound \in BOOLEAN
    /\ BeforeExecute

PoolNext ==
    \/ ExecuteDeployment
    \/ SimSubmit
    \/ \E n \in DOMAIN futures : WorkerStart(n)
    \/ \E n \in DOMAIN futures : WorkerFinish(n)
    \/ \E n \in DOMAIN futures : SimCollect(n)
    \/ SimReturn
    \/ GenerateDeploymentReport

PoolSpec == PoolInit /\ [][PoolNext]_vars

(***************************************************************************)
(* One call of deploy_to_network: a simultaneous job over one network,     *)
(* with every behaviour of the deploy and verify commands.                 *)
(***************************************************************************)
AttemptInit ==
    /\ config \in AttemptConfigs
    /\ subprocess_bound \in BOOLEAN
    /\ BeforeExecute

AttemptNext ==
    \/ ExecuteDeployment
    \/ SimSubmit
    \/ \E n \in DOMAIN futures : WorkerStart(n)
    \/ \E n \in DOMAIN futures : AttemptFinish(n)
    \/ \E n \in DOMAIN futures : SimCollect(n)
    \/ SimReturn
    \/ GenerateDeploymentReport

AttemptSpec == AttemptInit /\ [][AttemptNext]_vars

(***************************************************************************)
(* Properties.                                                             *)
(***************************************************************************)
ValidStrategy == deployment_strategy \in ValidStrategies

\* execute_deployment is over.
Ended == pc \in {"returned", "raised"}

\* The strategy routine has returned its result set to execute_deployment.
StrategyReturned == pc = "report" \/ reports_written > 0

ReportBuilt == report # <<>>

TheReport == report[1]

\* The networks of t, in the order s lists them.
Restrict(s, t) ==
    LET InT(n) == n \in Range(t)
    IN  SelectSeq(s, InT)

\* C1: run as a script, a job with a valid strategy and at least one enabled
\* target is never failed as a unit: execute_deployment (the strategy, then
\* generate_deployment_report with its markdown rendering and summary) does
\* not end by raising.
C1_JobNeverRaises ==
    (subprocess_bound /\ ValidStrategy /\ networks # <<>>) => pc # "raised"

\* C2: in the report summary, successfulDeployments + failedDeployments is
\* the number of enabled targets of the job, and so is totalNetworks.
C2_SummaryCountsEnabledTargets ==
    ReportBuilt =>
        /\ TheReport.summary.successfulDeployments
             + TheReport.summary.failedDeployments = Len(networks)
        /\ TheReport.summary.totalNetworks = Len(networks)

\* C3: the per-target entries of the report stand in the order in which the
\* job's configuration lists its enabled targets.
C3_ReportInConfiguredOrder ==
    ReportBuilt =>
        Keys(TheReport.networks) = Restrict(networks, Keys(TheReport.networks))

\* C4: every report has one entry for every enabled target of the job; a
\* target a stopped sequential run never reached has an entry too.
C4_ReportCoversEnabledTargets ==
    ReportBuilt => KeySet(TheReport.networks) = Range(networks)

NoAttemptInFlight == Running = {} /\ FuturesIn("pending") = {}

\* deploy_to_network was entered for n and has come back.
Terminal(n) == n \in Range(dispatched) /\ n \notin Running

Recorded(n) == n \in KeySet(results)

Failed(n) == Recorded(n) /\ ~Item(results, n).success

Succeeded(n) == Recorded(n) /\ Item(results, n).success

ErrorOf(n) == Get(Item(results, n), "error", None)

\* C5: coordinated strategy: when the barrier delay has begun, and when any
\* target of the later phase has been submitted or started, every target of
\* phase 1 has come back from deploy_to_network and its result is recorded.
C5_PhaseBarrier ==
    deployment_strategy = "coordinated" =>
        LET laterPhaseBegun ==
                \E b \in Range(remaining_networks) :
                    b \in Range(dispatched) \/ b \in DOMAIN futures
            phase1Over ==
                \A a \in Range(priority_networks) : Terminal(a) /\ Recorded(a)
        IN  (10 \in Range(sleeps) \/ laterPhaseBegun) => phase1Over

\* A later-phase attempt runs after a phase 1 in which one attempt failed and
\* another succeeded.
C5_Witness ==
    /\ deployment_strategy = "coordinated"
    /\ \E a1, a2 \in Range(priority_networks) : Succeeded(a1) /\ Failed(a2)
    /\ \E b \in Range(remaining_networks) : b \in Running

\* C6: failure isolation in a simultaneous phase: whatever an attempt does
\* (fails, times out, raises in deploy_to_network or at future.result()), the
\* phase does not end by raising, and when it is over every target submitted
\* in it was run and has its result in the result set.
C6_FailureIsolation ==
    LET Done(n) == n \in Range(dispatched) /\ Recorded(n)
        pooled == deployment_strategy \in {"simultaneous", "coordinated"}
        phase1Over == pc \in {"coord_delay", "coord_phase3"}
    IN  /\ (pooled /\ StrategyReturned) => \A n \in Range(networks) : Done(n)
        /\ (deployment_strategy = "coordinated" /\ phase1Over)
              => \A n \in Range(priority_networks) : Done(n)
        /\ (pooled /\ networks # <<>> /\ pc = "raised") => reports_written = 1

\* A simultaneous phase is over in which one attempt timed out, one raised
\* inside deploy_to_network and one succeeded.
C6_Witness ==
    /\ deployment_strategy = "simultaneous"
    /\ pc = "report"
    /\ \E a, b, c \in Range(networks) :
        /\ Succeeded(a)
        /\ Failed(b) /\ ErrorOf(b) = "Deployment timed out"
        /\ Failed(c) /\ ErrorOf(c) = KeyErrorText(c)

StopAnswered == \E i \in 1..Len(responses) : responses[i] # "y"

\* C7: sequential strategy: once the prompt after a failed attempt is
\* answered with anything but 'y', the loop is left and deploy_to_network
\* has been called for the targets up to the failed one and for no other.
C7_NoDispatchAfterStop ==
    (deployment_strategy = "sequential" /\ StopAnswered) =>
        /\ pc \in {"report", "raised", "returned"}
        /\ dispatched = SubSeq(sorted_networks, 1, seq_i)
        /\ seq_i < Len(sorted_networks)
        /\ KeySet(results) = Range(dispatched)

\* A run stopped after its first target, with two targets left, has ended.
C7_Witness ==
    /\ deployment_strategy = "sequential"
    /\ StopAnswered
    /\ Ended
    /\ Len(dispatched) = 1
    /\ Len(sorted_networks) = 3

InvalidJob ==
    networks = <<>> \/ \E n \in Range(networks) : n \notin Registered

\* C8: a job with no enabled target, or with a target the registry lacks, is
\* rejected before the engine runs: no strategy routine is entered and
\* deploy_to_network is called for no target.
C8_InvalidJobRejected ==
    InvalidJob => (pc \in {"execute", "raised"} /\ dispatched = <<>>)

\* C9: deploy_to_network never propagates an exception: no future holds an
\* exception, and the sequential loop is never left by one.
C9_DeployToNetworkNeverRaises ==
    /\ \A n \in FuturesIn("finished") : futures[n].outcome.raised = None
    /\ pc = "raised" => raised # "NameError"

\* C10: the report is generated at most once, and only when every attempt
\* the strategy dispatched is over and recorded; execute_deployment does not
\* end while an attempt is pending or running; and a run ends with exactly
\* one report unless the strategy routine itself raised.
C10_ReportOnceAfterAllTerminal ==
    /\ reports_written <= 1
    /\ ReportBuilt <=> reports_written = 1
    /\ (pc = "report" \/ ReportBuilt \/ Ended) => NoAttemptInFlight
    /\ pc = "report" => reports_written = 0
    /\ ReportBuilt =>
          /\ KeySet(results) = Range(dispatched)
          /\ Keys(TheReport.networks) = Keys(results)
    /\ Ended => (reports_written = 1 \/ raised \in {"ValueError", "NameError"})

\* A simultaneous run over three targets has ended with its one report.
C10_Witness ==
    /\ deployment_strategy = "simultaneous"
    /\ Ended
    /\ reports_written = 1
    /\ Len(dispatched) = 3

\* C12: generating the report again from the same result set and the same
\* configuration, at any time, yields the content of the report that was
\* generated.
C12_ReportRegeneratedIdentical ==
    ReportBuilt =>
        \A now \in Timestamps : BuildReport(results, config, now) = TheReport

\* C13: every run terminates.  With the collaborators returning or timing
\* out and the prompt answered, every call of deploy_to_network that was
\* started comes back, a coordinated run that has submitted its first phase
\* gets past the barrier delay, and execute_deployment ends (by returning or
\* by raising) under every strategy.
C13_EveryRunTerminates ==
    /\ <>Ended
    /\ [](Ended =>
            /\ NoAttemptInFlight
            /\ \A n \in Range(dispatched) : Terminal(n)
            /\ deployment_strategy = "coordinated" => 10 \in Range(sleeps))

\* A coordinated run has ended after both phases, the barrier delay between
\* them, and an attempt that ran into its timeout.
C13_Witness ==
    /\ deployment_strategy = "coordinated"
    /\ Ended
    /\ priority_networks # <<>>
    /\ remaining_networks # <<>>
    /\ Range(dispatched) = Range(networks)
    /\ 10 \in Range(sleeps)
    /\ \E n \in Range(networks) :
        Failed(n) /\ ErrorOf(n) = "Deployment timed out"

\* C14: report generation over an empty result set does not end in an
\* exception: the summary is printed, with the success percentage given as
\* not applicable.
C14_EmptyResultSetIsReported ==
    (ReportBuilt /\ TheReport.summary.totalNetworks = 0) =>
        /\ RenderReport(TheReport).raised = None
        /\ pc = "returned"

\* C15: generate_deployment_report ends with an aggregation error exactly
\* when the result set lacks an enabled target of the job, and then no report
\* is produced; otherwise it ends with no aggregation error.
C15_AggregationErrorIffTargetMissing ==
    LET missing == \E n \in Range(networks) : ~Recorded(n)
        aggregationError == pc = "raised" /\ raised = "AggregationError"
    IN  (StrategyReturned /\ pc # "report") =>
            /\ aggregationError <=> missing
            /\ missing => (~ReportBuilt /\ reports_written = 0)

(***************************************************************************)
(* Properties of the priority order (PrioritySpec).                        *)
(***************************************************************************)
\* C16: coordinated strategy: of two enabled targets, the one with the lower
\* priority value has come back from deploy_to_network before the call for
\* the other is started, whatever the two values are.
C16_BucketPerPriority ==
    deployment_strategy = "coordinated" =>
        \A a, b \in Range(networks) :
            (PriorityOf(config, a) < PriorityOf(config, b)
                /\ b \in Range(dispatched)) => Terminal(a)

\* The priority the configuration gives n, 1 if it gives none.
ConfiguredPriority(n) ==
    LET settings == Item(config.networks, n)
    IN  IF "priority" \in DOMAIN settings THEN settings.priority ELSE 1

\* Where the configuration lists n among its enabled targets.
ConfiguredPlace(n) == CHOOSE i \in 1..Len(networks) : networks[i] = n

\* a is due before b: lower priority value, or the same and listed earlier.
DueBefore(a, b) ==
    \/ ConfiguredPriority(a) < ConfiguredPriority(b)
    \/ /\ ConfiguredPriority(a) = ConfiguredPriority(b)
       /\ ConfiguredPlace(a) < ConfiguredPlace(b)

\* C17: sequential strategy: the calls of deploy_to_network are made in
\* ascending priority (1 where none is configured), equal priorities in
\* configured order, with no enabled target passed over; a call is made only
\* when the one before has come back and is recorded, so at most one is
\* under way; and a loop that was not stopped calls every enabled target.
C17_SequentialInPriorityOrder ==
    deployment_strategy = "sequential" =>
        /\ \A i, j \in 1..Len(dispatched) :
            i < j => DueBefore(dispatched[i], dispatched[j])
        /\ \A n \in Range(networks) \ Range(dispatched) :
            \A d \in Range(dispatched) : DueBefore(d, n)
        /\ Range(dispatched) \subseteq Range(networks)
        /\ Cardinality(Running) <= 1
        /\ \A i \in 1..Len(dispatched) :
            i < Len(dispatched) =>
                Terminal(dispatched[i]) /\ Recorded(dispatched[i])
        /\ (pc = "report" /\ ~StopAnswered) =>
                Range(dispatched) = Range(networks)

\* The third call of a sequential run is under way; the order of the calls
\* is not the configured order, two targets share a priority and one has
\* none configured.
C17_Witness ==
    /\ deployment_strategy = "sequential"
    /\ pc = "seq_call"
    /\ Len(dispatched) = 3
    /\ dispatched # SubSeq(networks, 1, 3)
    /\ \E a, b \in Range(dispatched) :
        a # b /\ ConfiguredPriority(a) = ConfiguredPriority(b)
    /\ \E n \in Range(dispatched) :
        "priority" \notin DOMAIN Item(config.networks, n)

(***************************************************************************)
(* Properties of the worker pool (PoolSpec).                               *)
(***************************************************************************)
\* C18: a simultaneous phase over n >= 1 targets: once the pool is set up
\* every target has a submitted call; the calls under way never number more
\* than n nor more than 5; a call that found no free worker is still
\* submitted, and when the phase is over every target was run and recorded.
C18_BoundedPool ==
    LET n == Len(sim_networks)
        phase == pc = "sim_collect"
    IN  /\ phase => DOMAIN futures = Range(sim_networks)
        /\ phase => n >= 1
        /\ Cardinality(Running) <= n
        /\ Cardinality(Running) <= 5
        /\ Range(dispatched) \cap FuturesIn("pending") = {}
        /\ (deployment_strategy = "simultaneous" /\ StrategyReturned) =>
              /\ Range(dispatched) = Range(networks)
              /\ KeySet(results) = Range(networks)
              /\ Len(dispatched) = Len(networks)

\* Six targets were submitted: five calls are under way and the sixth
\* waits for a free worker.
C18_Witness ==
    /\ Len(sim_networks) > 5
    /\ Cardinality(Running) = 5
    /\ FuturesIn("pending") # {}
    /\ FuturesIn("finished") = {}
    /\ FuturesIn("collected") = {}

(***************************************************************************)
(* Properties of one call of deploy_to_network (AttemptSpec).              *)
(***************************************************************************)
\* The calls that have ended, with what the hardhat commands did in them.
Attempts == {futures[n] : n \in FuturesIn("finished")}

ExitedZero(a) == a.run.kind = "CompletedProcess" /\ a.run.returncode = 0

Returned(a) == a.outcome.raised = None

VerifyCalls(a) ==
    LET IsVerify(cmd) == cmd.command = "verify"
    IN  SelectSeq(a.outcome.calls, IsVerify)

\* The deploy script was run and exited with status 0, and verification was
\* asked for.
VerificationDue(a) ==
    /\ subprocess_bound
    /\ Len(a.outcome.calls) > 0
    /\ ExitedZero(a)
    /\ config.deployment.verificationEnabled
    /\ ~Get(config.networks[1].value, "skipVerification", FALSE)

\* C11: whenever the deploy script was run and exited with status 0,
\* deploy_to_network returns a record with success = TRUE and no error,
\* whatever verify_contract did (verified, rejected, timed out, could not
\* start, found no address); where verification was due its outcome is the
\* `verification` entry of the deployment record and nothing else differs
\* from the record of the same deployment left unverified.
C11_VerificationKeepsStatus ==
    \A a \in Attempts :
        (Len(a.outcome.calls) > 0 /\ ExitedZero(a)) =>
            /\ Returned(a)
            /\ a.outcome.value.success
            /\ "error" \notin DOMAIN a.outcome.value
            /\ a.outcome.value.output = a.run.stdout
            /\ LET deployment == a.outcome.value.deployment
                   plain == [network |-> a.outcome.value.network]
                                @@ parse_deployment_output(a.run.stdout)
               IN  IF VerificationDue(a)
                   THEN /\ "verification" \in DOMAIN deployment
                        /\ deployment = [verification |->
                                            deployment.verification] @@ plain
                   ELSE deployment = plain

\* A deployment succeeded and its verification timed out.
C11_Witness ==
    \E a \in Attempts :
        /\ ExitedZero(a)
        /\ VerifyCalls(a) # <<>>
        /\ a.verify.kind = "TimeoutExpired"
        /\ a.outcome.value.success
        /\ ~a.outcome.value.deployment.verification.success

\* The call returned a record that says the deployment succeeded.
AttemptSucceeded(a) == Returned(a) /\ a.outcome.value.success

\* What parse_deployment_output made of the deploy script's output.
ParsedAddress(a) ==
    Get(parse_deployment_output(a.run.stdout), "contractAddress", None)

VerificationRecorded(a) ==
    /\ AttemptSucceeded(a)
    /\ "verification" \in DOMAIN a.outcome.value.deployment

\* C19 as stated: `npx hardhat verify` is run for a target if and only if
\* the job has verificationEnabled, the target's skipVerification is not
\* set and the deployment succeeded; and whenever it is run its outcome is
\* recorded on the attempt.
C19_VerifyIffEnabledAndSucceeded ==
    \A a \in Attempts :
        /\ VerifyCalls(a) # <<>> <=>
              /\ config.deployment.verificationEnabled
              /\ ~Get(config.networks[1].value, "skipVerification", FALSE)
              /\ AttemptSucceeded(a)
        /\ VerifyCalls(a) # <<>> => VerificationRecorded(a)

\* C19 as amended: `npx hardhat verify` is run, once and for the parsed
\* address, if and only if the job has verificationEnabled, the target's
\* skipVerification is not set, the deploy script exited with status 0 and
\* an address was found in its output; it is never run for an attempt that
\* failed or timed out; whenever it is run its outcome is recorded on the
\* attempt; and when verification is due but no address was found the
\* recorded outcome is the failure "No contract address found".
C19_VerifyIffDueAndAddressFound ==
    \A a \in Attempts :
        /\ VerifyCalls(a) # <<>> <=>
              (VerificationDue(a) /\ ParsedAddress(a) # None)
        /\ VerifyCalls(a) # <<>> =>
              /\ VerifyCalls(a) = <<[command |-> "verify",
                                     network |-> config.networks[1].key,
                                     address |-> ParsedAddress(a),
                                     timeout |-> 120000]>>
              /\ VerificationRecorded(a)
        /\ ~AttemptSucceeded(a) => VerifyCalls(a) = <<>>
        /\ (VerificationDue(a) /\ ParsedAddress(a) = None) =>
              /\ VerificationRecorded(a)
              /\ a.outcome.value.deployment.verification =
                    [success |-> FALSE, error |-> "No contract address found"]
        /\ ~VerificationDue(a) => ~VerificationRecorded(a)

\* Verification was due, an address was found, and `npx hardhat verify` was
\* run for it and exited with status 1.
C19_Witness ==
    \E a \in Attempts :
        /\ VerificationDue(a)
        /\ ParsedAddress(a) = AddressB
        /\ a.verify.kind = "CompletedProcess"
        /\ a.verify.returncode = 1
        /\ VerifyCalls(a) # <<>>
        /\ ~a.outcome.value.deployment.verification.success

\* C20: a deploy script that runs into the timeout leaves an attempt whose
\* status is "timed-out", not the status of a failed attempt, with the
\* error text "deployment timed out"; the report entry shows the same.
C20_TimedOutIsDistinct ==
    \A a \in Attempts :
        (Len(a.outcome.calls) > 0 /\ a.run.kind = "TimeoutExpired") =>
            /\ Returned(a)
            /\ Get(a.outcome.value, "status", None) = "timed-out"
            /\ Get(a.outcome.value, "error", None) = "deployment timed out"
            /\ Get(ReportEntry(a.outcome.value), "status", None) = "timed-out"

\* The deploy script was run and exited, with whatever status.
CollaboratorReturned(a) ==
    Len(a.outcome.calls) > 0 /\ a.run.kind = "CompletedProcess"

DeploymentFields ==
    {"contractAddress", "transactionHash", "gasUsed", "verification"}

\* C21: when the deploy script was run and exited, deploy_to_network returns
\* a record whose success says whether the exit status was 0; after another
\* exit status the record's error is the script's stderr, the record has no
\* deployment entry and none of address, transaction hash, gas and
\* verification, and its report entry has them all null.
C21_OutcomeFollowsExitStatus ==
    \A a \in Attempts :
        CollaboratorReturned(a) =>
            /\ Returned(a)
            /\ a.outcome.value.success <=> a.run.returncode = 0
            /\ a.run.returncode # 0 =>
                  /\ a.outcome.value.error = a.run.stderr
                  /\ "deployment" \notin DOMAIN a.outcome.value
                  /\ DOMAIN a.outcome.value \cap DeploymentFields = {}
                  /\ \A f \in DeploymentFields :
                        ReportEntry(a.outcome.value)[f] = None
                  /\ ReportEntry(a.outcome.value).error = a.run.stderr

\* The deploy script printed the address it deployed to and then exited
\* with status 1: the attempt is failed with the script's stderr.
C21_Witness ==
    \E a \in Attempts :
        /\ CollaboratorReturned(a)
        /\ a.run.returncode = 1
        /\ FindAddresses(Concat(a.run.stdout)) # <<>>
        /\ ~a.outcome.value.success
        /\ a.outcome.value.error = "HH700: artifact not saved"

(***************************************************************************)
(* Properties of the jobs create_deployment_config writes (PoolSpec).      *)
(***************************************************************************)
\* The `npx hardhat run` commands a finished call handed to subprocess.run.
DeployCalls(n) ==
    LET IsRun(cmd) == cmd.command = "run"
    IN  SelectSeq(futures[n].outcome.calls, IsRun)

\* C22: run as a script on a job written by create_deployment_config, every
\* call of deploy_to_network for an enabled registered target runs the
\* deploy script exactly once, for that target and with the target's
\* customTimeout, and does not end as a failed attempt without having run it.
C22_CollaboratorInvokedOnce ==
    subprocess_bound =>
        \A n \in FuturesIn("finished") \cap Registered :
            /\ Len(DeployCalls(n)) = 1
            /\ DeployCalls(n)[1].network = n
            /\ DeployCalls(n)[1].timeout
                  = Item(config.networks, n).customTimeout

(***************************************************************************)
(* Properties of the runs over every job configuration (Spec).             *)
(***************************************************************************)
\* C23: a job whose strategy is none of simultaneous, sequential and
\* coordinated ends in execute_deployment with ValueError before anything
\* is dispatched: no call is submitted to a pool or started, no result is
\* recorded, no prompt or delay is taken and no report is built or written.
C23_UnknownStrategyRejected ==
    ~ValidStrategy =>
        /\ pc \in {"execute", "raised"}
        /\ pc = "raised" => raised = "ValueError"
        /\ dispatched = <<>>
        /\ futures = <<>>
        /\ results = <<>>
        /\ sleeps = <<>> /\ responses = <<>>
        /\ ~ReportBuilt
        /\ reports_written = 0

\* A job with the strategy "rolling" and two enabled registered targets
\* has been rejected.
C23_Witness ==
    /\ deployment_strategy = "rolling"
    /\ Len(networks) = 2
    /\ Range(networks) \subseteq Registered
    /\ pc = "raised"
    /\ raised = "ValueError"

\* The entry of n in a result dictionary, <<>> where it has none.
EntryIn(d, n) == IF n \in KeySet(d) THEN <<Item(d, n)>> ELSE <<>>

\* What the call of deploy_to_network for n handed back: its record, or the
\* record the except clause of deploy_simultaneous makes of what it raised.
HandedBack(n) ==
    LET outcome == futures[n].outcome
    IN  IF outcome.raised = None THEN outcome.value
        ELSE [success |-> FALSE, network |-> n, error |-> outcome.message]

\* C24: in every step of a run, an entry a result dictionary holds (the
\* local one of deploy_simultaneous or the one of the strategy routine) is
\* left as it is, by the workers, by a later phase of deploy_coordinated, by
\* the hand-over from deploy_simultaneous to its caller and by
\* generate_deployment_report; an entry is new only for a target whose call
\* of deploy_to_network has come back, and a worker's entry is what its call
\* handed back.
C24_SingleWriterThenHandoff ==
    [][/\ \A n \in KeySet(results) :
            EntryIn(results', n) = EntryIn(results, n)
       /\ \A n \in KeySet(sim_results) :
            \/ EntryIn(sim_results', n) = EntryIn(sim_results, n)
            \/ /\ sim_results' = <<>>
               /\ EntryIn(results', n) = EntryIn(sim_results, n)
       /\ \A n \in KeySet(sim_results') \ KeySet(sim_results) :
            /\ n \notin KeySet(results)
            /\ n \in FuturesIn("finished")
            /\ Item(sim_results', n) = HandedBack(n)
       /\ \A n \in KeySet(results') \ KeySet(results) :
            /\ n \in Range(dispatched')
            /\ n \notin Running'
            /\ n \in KeySet(sim_results) \/ pc = "seq_call"
      ]_vars

\* A coordinated run has ended with its report: phase 3 added an entry to
\* the two phase 1 had handed over, one of them of a failed attempt.
C24_Witness ==
    /\ deployment_strategy = "coordinated"
    /\ Ended
    /\ ReportBuilt
    /\ Len(priority_networks) = 2
    /\ remaining_networks # <<>>
    /\ Keys(results) = priority_networks \o remaining_networks
    /\ \E a \in Range(priority_networks) : Failed(a)

(***************************************************************************)
(* More properties of one call of deploy_to_network (AttemptSpec).         *)
(***************************************************************************)
\* The contract addresses the output shows, in the order it shows them.
AddressTokens(output) ==
    LET IsAddress(word) == word \in Addresses
    IN  SelectSeq(Concat(output), IsAddress)

\* C25: when the output of a deploy script that exited with status 0 shows
\* several addresses, the contractAddress of the deployment record is the
\* last of them, on a labelled line or not.
C25_LastAddressIsTaken ==
    \A a \in Attempts :
        LET tokens == AddressTokens(a.run.stdout)
        IN  (AttemptSucceeded(a) /\ Len(tokens) > 1) =>
                Get(a.outcome.value.deployment, "contractAddress", None)
                    = tokens[Len(tokens)]

(***************************************************************************)
(* More properties of the runs over every job configuration (Spec).        *)
(***************************************************************************)
\* How many calls of deploy_to_network were started for n.
CallsOf(n) ==
    LET IsN(m) == m = n
    IN  Len(SelectSeq(dispatched, IsN))

\* C26: under every strategy and whatever retryAttempts and retryDelay say,
\* deploy_to_network is called at most once for a target, also after the
\* call failed, timed out or raised; a call runs the deploy script at most
\* once; and no delay of retryDelay is taken.
C26_NoRetries ==
    /\ \A n \in KeySet(config.networks) : CallsOf(n) <= 1
    /\ \A n \in Range(dispatched) : n \in KeySet(config.networks)
    /\ \A n \in FuturesIn("finished") :
          Len(futures[n].outcome.calls) <= 2
          /\ Len(DeployCalls(n)) <= 1
    /\ \A i \in 1..Len(sleeps) : sleeps[i] \in {2, 10}

\* A job with retryAttempts = 3 has ended: one attempt timed out, another
\* failed, and each target had one call.
C26_Witness ==
    /\ config.deployment.retryAttempts = 3
    /\ Ended
    /\ ReportBuilt
    /\ \E a, b \in Range(networks) :
        /\ Failed(a) /\ ErrorOf(a) = "Deployment timed out"
        /\ Failed(b) /\ ErrorOf(b) = "HH108: cannot connect"
        /\ CallsOf(a) = 1 /\ CallsOf(b) = 1

\* What the configuration says about n.
SwitchedOff(n) ==
    /\ "enabled" \in DOMAIN Item(config.networks, n)
    /\ ~Item(config.networks, n).enabled

\* Everywhere a target of the run shows.
Touched ==
    Range(dispatched) \cup DOMAIN futures \cup Range(sim_networks)
        \cup KeySet(sim_results) \cup KeySet(results)
        \cup (IF ReportBuilt THEN KeySet(TheReport.networks) ELSE {})

\* The strategy routine went through all its targets: it returned without
\* having been stopped at the prompt.
StrategyCompleted == StrategyReturned /\ ~StopAnswered

\* C27: a target with enabled = false is never submitted, started or
\* recorded under any strategy and has no report entry; a target with no
\* enabled field is handled as one with enabled = true: a strategy that
\* went through all its targets has called and recorded it, and the report
\* has its entry.
C27_DisabledNeverDispatched ==
    \A n \in KeySet(config.networks) :
        IF SwitchedOff(n)
        THEN n \notin Touched
        ELSE /\ StrategyCompleted => (n \in Range(dispatched) /\ Recorded(n))
             /\ (StrategyCompleted /\ ReportBuilt)
                    => n \in KeySet(TheReport.networks)

\* A run has ended with its report over a job that lists a network switched
\* off before one that has no enabled field.
C27_Witness ==
    /\ Ended
    /\ ReportBuilt
    /\ Len(config.networks) = 2
    /\ SwitchedOff(config.networks[1].key)
    /\ "enabled" \notin DOMAIN config.networks[2].value
    /\ Keys(TheReport.networks) = <<config.networks[2].key>>

\* The barrier delays taken so far.
BarrierDelays ==
    LET IsBarrier(s) == s = 10
    IN  Len(SelectSeq(sleeps, IsBarrier))

\* C28: coordinated strategy: the delay of 10 s is taken exactly once in a
\* run, when phase 1 is over (every target of priority 1 called and
\* recorded) and before any other target is submitted, also when no enabled
\* target has priority 1 and when none is left for phase 3;
\* deploy_simultaneous is not entered with an empty list, so the run does
\* not end in the ValueError of an empty pool.
C28_BarrierOncePerRun ==
    deployment_strategy = "coordinated" =>
        /\ BarrierDelays <= 1
        /\ sleeps = [i \in 1..BarrierDelays |-> 10]
        /\ BarrierDelays = 1 <=>
              (pc \in {"coord_phase3", "report", "returned"}
                 \/ sim_return = "report" \/ reports_written > 0)
        /\ BarrierDelays = 1 =>
              \A a \in Range(priority_networks) : Terminal(a) /\ Recorded(a)
        /\ BarrierDelays = 0 =>
              \A b \in Range(remaining_networks) :
                  b \notin Range(dispatched) \cup DOMAIN futures
                        \cup Range(sim_networks)
        /\ pc = "sim_submit" => sim_networks # <<>>
        /\ pc = "raised" => reports_written = 1

\* A coordinated run has ended in which no enabled target had priority 1:
\* the delay was taken once, before the two targets of phase 3.
C28_Witness ==
    /\ deployment_strategy = "coordinated"
    /\ Ended
    /\ priority_networks = <<>>
    /\ Len(remaining_networks) = 2
    /\ sleeps = <<10>>
    /\ KeySet(results) = Range(remaining_networks)

\* The targets a sequential run has recorded as failed, the last of the
\* sorted order left out.
FailedBeforeLast ==
    {i \in 1..(Len(sorted_networks) - 1) : Failed(sorted_networks[i])}

\* C29: sequential strategy: the prompt is open only right after a failed
\* attempt that is not the last of the sorted order, with that attempt
\* recorded and the delay not yet taken; one answer was given for each such
\* attempt and none otherwise, so none after a successful attempt or after
\* the last target; an answer other than 'y' is the last one and the run
\* goes on to the report with one delay less than the calls it made; under
\* the other strategies nothing is asked.
C29_PromptOnlyAfterFailure ==
    IF deployment_strategy = "sequential"
    THEN /\ pc = "seq_input" =>
               /\ seq_i < Len(sorted_networks)
               /\ Failed(sorted_networks[seq_i])
               /\ dispatched = SubSeq(sorted_networks, 1, seq_i)
               /\ Len(sleeps) = seq_i - 1
         /\ Len(responses) + (IF pc = "seq_input" THEN 1 ELSE 0)
               = Cardinality(FailedBeforeLast)
         /\ \A i \in 1..(Len(responses) - 1) : responses[i] = "y"
         /\ StopAnswered =>
               /\ Len(sleeps) = Len(dispatched) - 1
               /\ Failed(dispatched[Len(dispatched)])
         /\ \A i \in 1..Len(sleeps) : sleeps[i] = 2
         /\ (pc = "report" /\ ~StopAnswered /\ networks # <<>>) =>
               Len(sleeps) = Len(networks) - 1
    ELSE responses = <<>> /\ pc # "seq_input"

\* A sequential run over three targets: the first attempt succeeded, the
\* second failed and the answer was to stop; one delay was taken, the one
\* after the first attempt.
C29_Witness ==
    /\ deployment_strategy = "sequential"
    /\ Len(sorted_networks) = 3
    /\ Succeeded(sorted_networks[1])
    /\ Failed(sorted_networks[2])
    /\ responses = <<"n">>
    /\ sleeps = <<2>>
    /\ Len(dispatched) = 2
    /\ Ended

\* C30: in the report, an entry with success = true has error null and one
\* with success = false has contractAddress, transactionHash, gasUsed and
\* verification null and an error that is not null; the entry says what the
\* result-set entry of the same key says; and every entry of a result
\* dictionary, the local one of deploy_simultaneous included, has the key it
\* is stored under as its network field.
C30_ReportEntriesExclusive ==
    /\ \A i \in 1..Len(results) : results[i].value.network = results[i].key
    /\ \A i \in 1..Len(sim_results) :
          sim_results[i].value.network = sim_results[i].key
    /\ ReportBuilt =>
          \A i \in 1..Len(TheReport.networks) :
              LET n == TheReport.networks[i].key
                  entry == TheReport.networks[i].value
              IN  /\ Recorded(n)
                  /\ entry.success = Item(results, n).success
                  /\ entry.success => entry.error = None
                  /\ ~entry.success =>
                        /\ \A f \in DeploymentFields : entry[f] = None
                        /\ entry.error # None
                        /\ entry.error = Item(results, n).error

\* A report holds the entry of a verified deployment, with its address and
\* no error, next to the entry of an attempt whose deploy script failed.
C30_Witness ==
    /\ ReportBuilt
    /\ \E i, j \in 1..Len(TheReport.networks) :
        LET good == TheReport.networks[i].value
            bad == TheReport.networks[j].value
        IN  /\ good.success
            /\ good.contractAddress = AddressA
            /\ good.verification.success
            /\ good.error = None
            /\ ~bad.success
            /\ bad.error = "HH108: cannot connect"
            /\ bad.contractAddress = None

====
